---- MODULE Spec2Model ----
(***************************************************************************)
(* Saturation core of dd::solver (src/math/grobner/pdd_solver.cpp).        *)
(*                                                                         *)
(* The solver object, with the flag of its reslimit, is the record g; the   *)
(* position of the caller inside saturate() and the history needed to      *)
(* state the laws are separate variables.  Polynomials are elements of the *)
(* Boolean ring GF(2)[x0..x(NV-1)]/(xi*xi = xi) (the mod2 semantics of the *)
(* pdd manager): a polynomial is a set of monomials, a monomial a set of   *)
(* variables.                                                              *)
(***************************************************************************)
EXTENDS Integers, Sequences, FiniteSets, TLC

\* ------------------------------------------------------------------------
\* Bounds of the model
\* ------------------------------------------------------------------------

\* number of add() calls made by the caller in one behaviour
MaxAdds == 3

\* the flag of the reslimit is set by another thread no later than before the
\* MaxPoll-th read of it within one step
MaxPoll == 5

\* the algebra raises mem_out no later than at its MaxAlg-th call within one
\* step
MaxAlg == 4

\* passes of the do-while of simplify_using(eq, eqs) after which the loop is
\* reported as not terminating
IterCap == 6

\* ------------------------------------------------------------------------
\* Polynomial algebra (pdd_manager, mod2 semantics)
\* ------------------------------------------------------------------------

\* pdd_manager::get_level2var(): index = level + 1, value = variable id.
\* Variables 0 = x, 1 = y, 2 = z ordered x > y > z.
l2v == <<2, 1, 0>>

NV == Len(l2v)

Vars == 0 .. (NV - 1)

\* m_var2level as filled by init_saturate
var2level(v) == (CHOOSE i \in 1 .. NV : l2v[i] = v) - 1

Max(a, b) == IF a >= b THEN a ELSE b

RECURSIVE Pow2(_)
Pow2(n) == IF n = 0 THEN 1 ELSE 2 * Pow2(n - 1)

\* position of a monomial in the term order induced by the variable levels
RECURSIVE MWeight(_)
MWeight(m) ==
    IF m = {} THEN 0
    ELSE LET v == CHOOSE u \in m : TRUE
         IN  Pow2(var2level(v)) + MWeight(m \ {v})

is_val(p) == p \subseteq {{}}

is_zero(p) == p = {}

\* leading monomial: the hi-path of the diagram
LM(p) == CHOOSE m \in p : \A n \in p : MWeight(n) <= MWeight(m)

\* p.var(): the variable of the root node, defined for non-constants
var(p) ==
    LET vs == UNION p
    IN  CHOOSE v \in vs : \A u \in vs : var2level(u) <= var2level(v)

\* p.hi(): the cofactor of the root variable
hi(p) == {m \ {var(p)} : m \in {n \in p : var(p) \in n}}

lo(p) == {n \in p : var(p) \notin n}

free_vars(p) == UNION p

degree(p) ==
    IF p = {} THEN 0
    ELSE LET m == CHOOSE n \in p : \A k \in p : Cardinality(k) <= Cardinality(n)
         IN  Cardinality(m)

RECURSIVE tree_size(_)
tree_size(p) ==
    IF is_val(p) THEN 1 ELSE 1 + tree_size(hi(p)) + tree_size(lo(p))

\* sum in GF(2)
PAdd(p, q) == (p \ q) \cup (q \ p)

\* product of the monomial s with q (variables are idempotent)
MulMono(s, q) ==
    {u \in {s \cup t : t \in q} :
        Cardinality({t \in q : s \cup t = u}) % 2 = 1}

\* pdd::reduce: cancel every monomial of p that the leading monomial of q
\* divides
RECURSIVE reduce(_, _)
reduce(p, q) ==
    IF is_zero(q) \/ is_val(p) THEN p
    ELSE LET lm == LM(q)
             hit == {m \in p : lm \subseteq m}
         IN  IF hit = {} THEN p
             ELSE LET m == LM(hit)
                  IN  reduce(PAdd(p, MulMono(m \ lm, q)), q)

\* pdd_manager::try_spoly: defined when the leading monomials share a variable
has_spoly(p, q) ==
    /\ ~is_val(p)
    /\ ~is_val(q)
    /\ LM(p) \cap LM(q) # {}

spoly(p, q) ==
    PAdd(MulMono(LM(q) \ LM(p), p), MulMono(LM(p) \ LM(q), q))

different_leading_term(p, q) ==
    IF is_val(p) \/ is_val(q) THEN p # q ELSE LM(p) # LM(q)

\* value of p under the assignment that sets exactly the variables in a to 1
Eval(p, a) == Cardinality({m \in p : m \subseteq a}) % 2

\* is_too_complex(p): tree_size above the configured limit
is_too_complex(g, p) == tree_size(p) > g.cfg.expr_size_limit

\* is_simpler(eq1, eq2): lower degree first, then smaller diagram
is_simpler(p, q) ==
    \/ degree(p) < degree(q)
    \/ degree(p) = degree(q) /\ tree_size(p) < tree_size(q)

\* ------------------------------------------------------------------------
\* Equations and queues
\* ------------------------------------------------------------------------

States == {"solved", "processed", "to_simplify"}

\* the null equation pointer
null == 0

\* equation(p, dep): a fresh equation is labelled to_simplify with index 0
equation(p, dep) ==
    [poly |-> p, dep |-> dep, state |-> "to_simplify", idx |-> 0, live |-> TRUE]

poly(g, e) == g.eqs[e].poly

is_trivial(p) == is_zero(p)

is_conflict(p) == is_val(p) /\ ~is_trivial(p)

\* mk_join of the dependency manager: both arguments were used
mk_join(a, b) == a \cup b

push_equation(g, st, e) ==
    [g EXCEPT !.eqs[e].state = st,
              !.eqs[e].idx = Len(g[st]),
              ![st] = Append(@, e)]

\* pop_equation that leaves the index of the equation moved into the hole as
\* it was
pop_equation_mut(g, e) ==
    LET st  == g.eqs[e].state
        v   == g[st]
        idx == g.eqs[e].idx
        n   == Len(v)
        eq2 == v[n]
    IN  IF idx # n - 1
        THEN [g EXCEPT ![st] = SubSeq([v EXCEPT ![idx + 1] = eq2], 1, n - 1)]
        ELSE [g EXCEPT ![st] = SubSeq(v, 1, n - 1)]

pop_equation(g, e) ==
    LET st  == g.eqs[e].state
        v   == g[st]
        idx == g.eqs[e].idx
        n   == Len(v)
        eq2 == v[n]
    IN  IF idx # n - 1
        THEN [g EXCEPT !.eqs[eq2].idx = idx,
                       ![st] = SubSeq([v EXCEPT ![idx + 1] = eq2], 1, n - 1)]
        ELSE [g EXCEPT ![st] = SubSeq(v, 1, n - 1)]

\* what the running operation did, for the record of the last operation
Note(g, what) == [g EXCEPT !.ev = @ \cup {what}]

\* retire(eq): dealloc
retire(g, e) ==
    [g EXCEPT !.eqs[e].live = FALSE,
              !.bad_free = @ \/ ~g.eqs[e].live]

\* the polynomial and dependency of every equation
Derived(s) ==
    [e \in 1 .. Len(s.eqs) |-> [poly |-> s.eqs[e].poly, dep |-> s.eqs[e].dep]]

\* frozen keeps what had been derived when the first conflict was set
set_conflict(g, e) ==
    push_equation([g EXCEPT !.conflict = e,
                            !.frozen = IF g.conflict = null
                                       THEN <<Derived(g)>> ELSE @],
                  "solved", e)

update_stats_max_degree_and_size(g, e) ==
    [g EXCEPT !.stats.max_expr_size = Max(@, tree_size(poly(g, e))),
              !.stats.max_expr_degree = Max(@, degree(poly(g, e)))]

add_to_watch(g, e) ==
    IF ~is_val(poly(g, e))
    THEN [g EXCEPT !.watch[var(poly(g, e)) + 1] = Append(@, e)]
    ELSE g

\* ------------------------------------------------------------------------
\* Cancellation flag and memory-out of the algebra
\* ------------------------------------------------------------------------

\* One read of the reslimit's flag.  cancel_in = k > 0 means that another
\* thread sets the flag just before the k-th read from now.
Poll(g) ==
    IF g.cancel_in = 1
    THEN Note([g EXCEPT !.cancel = TRUE, !.cancel_in = 0], "canceled")
    ELSE IF g.cancel_in > 1 THEN [g EXCEPT !.cancel_in = @ - 1]
    ELSE g

canceled(g) == g.cancel

\* m_to_simplify.size() + m_processed.size()
queued(g) == Len(g.to_simplify) + Len(g.processed)

\* a done() whose first disjunct never holds
size_never_reached(g) == FALSE

size_reached(g) == queued(g) >= g.cfg.eqs_threshold

\* the reads of the flag that done() makes before it answers
DonePoll(g) == IF size_reached(g) THEN g ELSE Poll(g)

done(g) ==
    \/ size_reached(g)
    \/ canceled(g)
    \/ g.stats.compute_steps > g.cfg.max_steps
    \/ g.conflict # null

\* One call into the algebra that allocates.  mem_in = k > 0 means that the
\* k-th such call from now raises pdd_manager::mem_out.
AlgCall(g) ==
    IF g.mem_in = 1
    THEN Note([g EXCEPT !.exc = TRUE, !.mem_in = 0,
                        !.exc_conflict = g.conflict], "mem_out")
    ELSE IF g.mem_in > 1 THEN [g EXCEPT !.mem_in = @ - 1]
    ELSE g

\* ------------------------------------------------------------------------
\* Reducer
\* ------------------------------------------------------------------------

NotSimplified(g) == [g |-> g, simplified |-> FALSE, changed |-> FALSE]

\* F applied to the value of v, which is computed once
Bind(v, F(_)) == CHOOSE r \in {F(x) : x \in {v}} : TRUE

\* try_simplify_using that assigns the result before it looks at its size
try_simplify_using_assigns_first(g, dst, src) ==
    IF src = dst THEN NotSimplified(g)
    ELSE Bind(AlgCall([g EXCEPT !.stats.simplified = @ + 1]), LAMBDA g1 :
         IF g1.exc THEN NotSimplified(g1)
         ELSE Bind(reduce(poly(g1, dst), poly(g1, src)), LAMBDA r :
              IF r = poly(g1, dst) THEN NotSimplified(g1)
              ELSE IF is_too_complex(g1, r)
                   THEN NotSimplified(
                          Note([g1 EXCEPT !.too_complex = TRUE,
                                          !.eqs[dst].poly = r],
                               "reduce_complex"))
              ELSE [g |-> update_stats_max_degree_and_size(
                            [g1 EXCEPT
                               !.eqs[dst].poly = r,
                               !.eqs[dst].dep = mk_join(@, g1.eqs[src].dep)],
                            dst),
                    simplified |-> TRUE,
                    changed |-> /\ g1.eqs[dst].state = "processed"
                                /\ different_leading_term(r, poly(g1, dst))]))

\* try_simplify_using that reports a simplification whenever the result is
\* not too complex, changed or not
try_simplify_using_always(g, dst, src) ==
    IF src = dst THEN NotSimplified(g)
    ELSE Bind(AlgCall([g EXCEPT !.stats.simplified = @ + 1]), LAMBDA g1 :
         IF g1.exc THEN NotSimplified(g1)
         ELSE Bind(reduce(poly(g1, dst), poly(g1, src)), LAMBDA r :
              IF is_too_complex(g1, r)
              THEN NotSimplified(
                     Note([g1 EXCEPT !.too_complex = TRUE], "reduce_complex"))
              ELSE [g |-> update_stats_max_degree_and_size(
                            [g1 EXCEPT
                               !.eqs[dst].poly = r,
                               !.eqs[dst].dep = mk_join(@, g1.eqs[src].dep)],
                            dst),
                    simplified |-> TRUE,
                    changed |-> /\ g1.eqs[dst].state = "processed"
                                /\ different_leading_term(r, poly(g1, dst))]))

try_simplify_using(g, dst, src) ==
    IF src = dst THEN NotSimplified(g)
    ELSE Bind(AlgCall([g EXCEPT !.stats.simplified = @ + 1]), LAMBDA g1 :
         IF g1.exc THEN NotSimplified(g1)
         ELSE Bind(reduce(poly(g1, dst), poly(g1, src)), LAMBDA r :
              IF r = poly(g1, dst) THEN NotSimplified(g1)
              ELSE IF is_too_complex(g1, r)
                   THEN NotSimplified(
                          Note([g1 EXCEPT !.too_complex = TRUE],
                               "reduce_complex"))
              ELSE [g |-> update_stats_max_degree_and_size(
                            [g1 EXCEPT
                               !.eqs[dst].poly = r,
                               !.eqs[dst].dep = mk_join(@, g1.eqs[src].dep)],
                            dst),
                    simplified |-> TRUE,
                    changed |-> /\ g1.eqs[dst].state = "processed"
                                /\ different_leading_term(r, poly(g1, dst))]))

\* ------------------------------------------------------------------------
\* Mutual simplifier
\* ------------------------------------------------------------------------

\* records what simplify_using(eq, eqs) does after canceled() has answered
\* true
NoteLate(g, late, what) == IF late THEN Note(g, what) ELSE g

\* the for loop of simplify_using(eq, eqs), from position i of eqs
RECURSIVE simplify_using_pass(_, _, _, _, _)
simplify_using_pass(g, e, eqs, i, simplified) ==
    IF i > Len(eqs) THEN [g |-> g, simplified |-> simplified]
    ELSE Bind(try_simplify_using(g, e, eqs[i]), LAMBDA t :
         IF t.g.exc THEN [g |-> t.g, simplified |-> simplified]
         ELSE Bind(Poll(NoteLate(t.g, canceled(g) /\ t.simplified,
                                 "late_reduce")), LAMBDA g1 :
              IF canceled(g1) \/ is_val(poly(g1, e))
              THEN [g |-> g1, simplified |-> simplified \/ t.simplified]
              ELSE simplify_using_pass(g1, e, eqs, i + 1,
                                       simplified \/ t.simplified)))

\* simplify_using(equation& eq, equation_vector const& eqs); pass counts the
\* iterations of the do-while
RECURSIVE simplify_using_eqs(_, _, _, _)
simplify_using_eqs(g, e, eqs, pass) ==
    Bind(simplify_using_pass(g, e, eqs, 1, FALSE), LAMBDA r :
         IF r.g.exc THEN r.g
         ELSE IF r.simplified /\ ~is_val(poly(r.g, e))
              THEN IF pass >= IterCap
                   THEN [r.g EXCEPT !.diverged = TRUE]
                   ELSE simplify_using_eqs(
                            NoteLate(r.g, canceled(r.g), "late_pass"),
                            e, eqs, pass + 1)
         ELSE r.g)

\* scoped_update::nextj with the values of i and j before the call
nextj(g, set, i, j) ==
    [g EXCEPT ![set][j + 1] = g[set][i + 1], !.eqs[g[set][i + 1]].idx = j]

\* a destructor of scoped_update that keeps the survivors only and drops the
\* entries not yet visited
scoped_update_dtor_truncates(g, set, i, j, sz) ==
    [g EXCEPT ![set] = SubSeq(@, 1, j)]

\* ~scoped_update
RECURSIVE scoped_update_dtor(_, _, _, _, _)
scoped_update_dtor(g, set, i, j, sz) ==
    IF i < sz
    THEN Bind(nextj(g, set, i, j), LAMBDA g1 :
              scoped_update_dtor(g1, set, i + 1, j + 1, sz))
    ELSE [g EXCEPT ![set] = SubSeq(@, 1, j)]

\* a migration that leaves m_levelp1 as it is
migrate_keeps_level(g, target) ==
    Bind(push_equation(g, "to_simplify", target), LAMBDA g1 :
         IF Len(g1.watch) # 0 THEN add_to_watch(g1, target) ELSE g1)

\* a migration that does not enter the target into the watch index
migrate_unwatched(g, target) ==
    Bind(push_equation(g, "to_simplify", target), LAMBDA g1 :
         IF Len(g1.watch) # 0
         THEN [g1 EXCEPT !.levelp1 =
                   Max(var2level(var(poly(g1, target))) + 1, @)]
         ELSE g1)

\* the migration of a processed target whose leading term changed
migrate(g, target) ==
    Bind(push_equation(g, "to_simplify", target), LAMBDA g1 :
         IF Len(g1.watch) # 0
         THEN add_to_watch(
                [g1 EXCEPT !.levelp1 =
                     Max(var2level(var(poly(g1, target))) + 1, @)],
                target)
         ELSE g1)

\* set_target that keeps a target reduced to zero in the queue
set_target_keeps_zero(t, set, target, i, j) ==
    IF t.simplified /\ is_conflict(poly(t.g, target))
    THEN [g |-> Note(set_conflict(t.g, target), "set_conflict"),
          kept |-> FALSE]
    ELSE IF t.simplified /\ t.changed /\ ~is_trivial(poly(t.g, target))
         THEN [g |-> Note(migrate(t.g, target), "set_migrate"),
               kept |-> FALSE]
    ELSE [g |-> nextj(t.g, set, i, j), kept |-> TRUE]

\* what simplify_using(set, eq) does with the target at position i after
\* try_simplify_using returned t; kept says whether the target stays
set_target(t, set, target, i, j) ==
    IF t.simplified /\ is_trivial(poly(t.g, target))
    THEN [g |-> Note(retire(t.g, target), "set_retire"), kept |-> FALSE]
    ELSE IF t.simplified /\ is_conflict(poly(t.g, target))
         THEN [g |-> Note(set_conflict(t.g, target), "set_conflict"),
               kept |-> FALSE]
    ELSE IF t.simplified /\ t.changed
         THEN [g |-> Note(migrate(t.g, target), "set_migrate"),
               kept |-> FALSE]
    ELSE [g |-> nextj(t.g, set, i, j), kept |-> TRUE]

\* simplify_using(equation_vector& set, equation const& eq), from position i
\* with j survivors kept so far
RECURSIVE simplify_using_set(_, _, _, _, _, _)
simplify_using_set(g, set, src, i, j, sz) ==
    IF i >= sz THEN scoped_update_dtor(g, set, i, j, sz)
    ELSE Bind(DonePoll(g), LAMBDA g0 :
         Bind(IF done(g0) THEN NotSimplified(g0)
              ELSE try_simplify_using(g0, g0[set][i + 1], src), LAMBDA t :
         IF t.g.exc THEN scoped_update_dtor(t.g, set, i, j, sz)
         ELSE Bind(set_target(t, set, g0[set][i + 1], i, j), LAMBDA u :
              simplify_using_set(u.g, set, src, i + 1,
                                 IF u.kept THEN j + 1 ELSE j, sz))))

\* ------------------------------------------------------------------------
\* add and the superposer
\* ------------------------------------------------------------------------

add(g, p, dep) ==
    IF is_zero(p) THEN g
    ELSE Bind([g EXCEPT !.eqs = Append(@, equation(p, dep))], LAMBDA g1 :
         IF is_conflict(p) THEN set_conflict(g1, Len(g1.eqs))
         ELSE Bind(push_equation(g1, "to_simplify", Len(g1.eqs)), LAMBDA g2 :
              update_stats_max_degree_and_size(
                IF Len(g2.watch) # 0
                THEN add_to_watch(
                       [g2 EXCEPT !.levelp1 = Max(var2level(var(p)) + 1, @)],
                       Len(g2.eqs))
                ELSE g2,
                Len(g2.eqs))))

\* superpose that records the dependency of eq1 alone
superpose_pair_dep1(g, e1, e2) ==
    Bind(AlgCall(g), LAMBDA g1 :
         IF g1.exc THEN g1
         ELSE IF has_spoly(poly(g1, e1), poly(g1, e2))
              THEN Bind(spoly(poly(g1, e1), poly(g1, e2)), LAMBDA r :
                   IF is_zero(r) THEN g1
                   ELSE IF is_too_complex(g1, r)
                        THEN Note([g1 EXCEPT !.too_complex = TRUE],
                                  "spoly_complex")
                   ELSE Bind(Note([g1 EXCEPT !.stats.superposed = @ + 1],
                                  IF is_val(r) THEN "spoly_conflict"
                                  ELSE "spoly_add"), LAMBDA g2 :
                        add(g2, r, g1.eqs[e1].dep)))
         ELSE g1)

\* superpose(equation const& eq1, equation const& eq2)
superpose_pair(g, e1, e2) ==
    Bind(AlgCall(g), LAMBDA g1 :
         IF g1.exc THEN g1
         ELSE IF has_spoly(poly(g1, e1), poly(g1, e2))
              THEN Bind(spoly(poly(g1, e1), poly(g1, e2)), LAMBDA r :
                   IF is_zero(r) THEN g1
                   ELSE IF is_too_complex(g1, r)
                        THEN Note([g1 EXCEPT !.too_complex = TRUE],
                                  "spoly_complex")
                   ELSE Bind(Note([g1 EXCEPT !.stats.superposed = @ + 1],
                                  IF is_val(r) THEN "spoly_conflict"
                                  ELSE "spoly_add"), LAMBDA g2 :
                        add(g2, r, mk_join(g1.eqs[e1].dep, g1.eqs[e2].dep))))
         ELSE g1)

\* superpose(equation const& eq), from position i of m_processed
RECURSIVE superpose(_, _, _)
superpose(g, e, i) ==
    IF i > Len(g.processed) THEN g
    ELSE Bind(superpose_pair(g, e, g.processed[i]), LAMBDA g1 :
         IF g1.exc THEN g1 ELSE superpose(g1, e, i + 1))

\* ------------------------------------------------------------------------
\* Scheduler and watch maintenance
\* ------------------------------------------------------------------------

\* the scan of one watch list in pick_next: best is the candidate so far
RECURSIVE pick_scan(_, _, _, _, _)
pick_scan(g, w, v, i, best) ==
    IF i > Len(w) THEN best
    ELSE IF /\ g.eqs[w[i]].state = "to_simplify"
            /\ var(poly(g, w[i])) = v
            /\ (best = null \/ is_simpler(poly(g, w[i]), poly(g, best)))
         THEN pick_scan(g, w, v, i + 1, w[i])
         ELSE pick_scan(g, w, v, i + 1, best)

\* vector::erase(elem): drops the first occurrence
erase(w, e) ==
    IF \E i \in 1 .. Len(w) : w[i] = e
    THEN LET k == CHOOSE i \in 1 .. Len(w) :
                     w[i] = e /\ \A h \in 1 .. (i - 1) : w[h] # e
         IN  SubSeq(w, 1, k - 1) \o SubSeq(w, k + 1, Len(w))
    ELSE w

\* pick_next that gives up at the first level without a candidate
pick_next_one_level(g) ==
    IF g.levelp1 > 0
    THEN Bind(pick_scan(g, g.watch[g.level2var[g.levelp1] + 1],
                        g.level2var[g.levelp1], 1, null), LAMBDA eq :
         IF eq # null
         THEN Bind(pop_equation(g, eq), LAMBDA g1 :
              [g |-> [g1 EXCEPT !.watch[var(poly(g1, eq)) + 1] = erase(@, eq)],
               e |-> eq])
         ELSE [g |-> g, e |-> null])
    ELSE [g |-> g, e |-> null]

RECURSIVE pick_next(_)
pick_next(g) ==
    IF g.levelp1 > 0
    THEN Bind(pick_scan(g, g.watch[g.level2var[g.levelp1] + 1],
                        g.level2var[g.levelp1], 1, null), LAMBDA eq :
         IF eq # null
         THEN Bind(pop_equation(g, eq), LAMBDA g1 :
              [g |-> [g1 EXCEPT !.watch[var(poly(g1, eq)) + 1] = erase(@, eq)],
               e |-> eq])
         ELSE Bind([g EXCEPT !.levelp1 = @ - 1], LAMBDA g1 : pick_next(g1)))
    ELSE [g |-> g, e |-> null]

\* watch_target that retires every target reduced to a constant
watch_target_retires_constant(g, target, v, j) ==
    IF is_val(poly(g, target))
    THEN [g |-> Note(retire(pop_equation(g, target), target), "watch_retire"),
          kept |-> FALSE]
    ELSE IF var(poly(g, target)) # v
         THEN [g |-> Note([g EXCEPT !.watch[var(poly(g, target)) + 1] =
                                        Append(@, target)],
                          "watch_move"),
               kept |-> FALSE]
    ELSE [g |-> [g EXCEPT !.watch[v + 1][j + 1] = target], kept |-> TRUE]

\* watch_target that leaves a target whose leading variable changed where it
\* is
watch_target_stays(g, target, v, j) ==
    IF is_trivial(poly(g, target))
    THEN [g |-> Note(retire(pop_equation(g, target), target), "watch_retire"),
          kept |-> FALSE]
    ELSE IF is_conflict(poly(g, target))
         THEN [g |-> Note(set_conflict(pop_equation(g, target), target),
                          "watch_conflict"),
               kept |-> FALSE]
    ELSE [g |-> [g EXCEPT !.watch[v + 1][j + 1] = target], kept |-> TRUE]

\* what simplify_watch does with the target at entry i of watch[v] once
\* try_simplify_using has run; kept says whether it stays in watch[v]
watch_target(g, target, v, j) ==
    IF is_trivial(poly(g, target))
    THEN [g |-> Note(retire(pop_equation(g, target), target), "watch_retire"),
          kept |-> FALSE]
    ELSE IF is_conflict(poly(g, target))
         THEN [g |-> Note(set_conflict(pop_equation(g, target), target),
                          "watch_conflict"),
               kept |-> FALSE]
    ELSE IF var(poly(g, target)) # v
         THEN [g |-> Note([g EXCEPT !.watch[var(poly(g, target)) + 1] =
                                        Append(@, target)],
                          "watch_move"),
               kept |-> FALSE]
    ELSE [g |-> [g EXCEPT !.watch[v + 1][j + 1] = target], kept |-> TRUE]

\* a loop of simplify_watch that reduces every target, done() or not
RECURSIVE simplify_watch_loop_ignores_done(_, _, _, _, _, _)
simplify_watch_loop_ignores_done(g, e, v, i, j, n) ==
    IF i > n THEN [g EXCEPT !.watch[v + 1] = SubSeq(@, 1, j)]
    ELSE Bind(DonePoll(g), LAMBDA g0 :
         Bind(try_simplify_using(g0, g0.watch[v + 1][i], e), LAMBDA t :
         IF t.g.exc THEN t.g
         ELSE Bind(watch_target(t.g, g0.watch[v + 1][i], v, j), LAMBDA u :
              simplify_watch_loop_ignores_done(u.g, e, v, i + 1,
                                               IF u.kept THEN j + 1 ELSE j,
                                               n))))

\* simplify_watch(eq): the loop over the n entries of watch[v], at entry i
\* with j entries kept
RECURSIVE simplify_watch_loop(_, _, _, _, _, _)
simplify_watch_loop(g, e, v, i, j, n) ==
    IF i > n THEN [g EXCEPT !.watch[v + 1] = SubSeq(@, 1, j)]
    ELSE Bind(DonePoll(g), LAMBDA g0 :
         Bind(IF ~done(g0) THEN try_simplify_using(g0, g0.watch[v + 1][i], e)
              ELSE NotSimplified(g0), LAMBDA t :
         IF t.g.exc THEN t.g
         ELSE Bind(watch_target(t.g, g0.watch[v + 1][i], v, j), LAMBDA u :
              simplify_watch_loop(u.g, e, v, i + 1,
                                  IF u.kept THEN j + 1 ELSE j, n))))

simplify_watch(g, e) ==
    simplify_watch_loop(g, e, var(poly(g, e)), 1, 0,
                        Len(g.watch[var(poly(g, e)) + 1]))

\* ------------------------------------------------------------------------
\* Saturation driver
\* ------------------------------------------------------------------------

\* a commit that never looks for the solved form
scoped_process_done_processed(g, e) ==
    Note(push_equation(g, "processed", e), "commit_processed")

\* scoped_process::done
scoped_process_done(g, e) ==
    IF is_val(hi(poly(g, e)))
    THEN Note(push_equation(g, "solved", e), "commit_solved")
    ELSE Note(push_equation(g, "processed", e), "commit_processed")

\* a destructor of the guard that drops the equation it still holds
scoped_process_dtor_drops(g, e) == g

\* ~scoped_process with sd.e = e still set
scoped_process_dtor(g, e) ==
    Note(push_equation(g, "processed", e), "guard_processed")

Ret(g, b) == [g |-> g, ret |-> b]

\* what simplify_using(eq, m_processed) did to the picked equation, for the
\* record of the step
eq_noted(g0, a, e) ==
    IF poly(a, e) = poly(g0, e) THEN a
    ELSE IF ~is_val(poly(a, e)) /\ var(poly(a, e)) # var(poly(g0, e))
         THEN Note(a, "eq_var_dropped")
    ELSE Note(a, "eq_reduced")

\* step() from superpose(eq) on
step_superpose(b1, e) ==
    Bind(superpose(b1, e, 1), LAMBDA c :
    IF c.exc THEN Ret(scoped_process_dtor(c, e), FALSE)
    ELSE Bind(simplify_watch(c, e), LAMBDA d :
         IF d.exc THEN Ret(scoped_process_dtor(d, e), FALSE)
         ELSE Bind(DonePoll(d), LAMBDA d1 :
              IF done(d1) THEN Ret(scoped_process_dtor(d1, e), FALSE)
              ELSE IF ~d1.too_complex
                   THEN Ret(scoped_process_done(d1, e), TRUE)
              ELSE Ret(scoped_process_dtor(d1, e), TRUE))))

\* step(), after pick_next returned e
step_with(g0, e) ==
    Bind(eq_noted(g0, simplify_using_eqs(g0, e, g0.processed, 1), e),
         LAMBDA a :
    IF a.exc \/ a.diverged THEN Ret(scoped_process_dtor(a, e), FALSE)
    ELSE IF is_trivial(poly(a, e))
         THEN Ret(Note(retire(a, e), "eq_retire"), TRUE)
    ELSE IF is_conflict(poly(a, e))
         THEN Ret(Note(set_conflict(a, e), "eq_conflict"), FALSE)
    ELSE Bind(simplify_using_set([a EXCEPT !.too_complex = FALSE],
                                 "processed", e, 0, 0, Len(a.processed)),
              LAMBDA b :
         IF b.exc THEN Ret(scoped_process_dtor(b, e), FALSE)
         ELSE Bind(DonePoll(b), LAMBDA b1 :
              IF done(b1) THEN Ret(scoped_process_dtor(b1, e), FALSE)
              ELSE step_superpose(b1, e))))

step(g) ==
    Bind(pick_next([g EXCEPT !.stats.compute_steps = @ + 1]), LAMBDA pk :
         IF pk.e = null
         THEN Ret(Note([pk.g EXCEPT !.picked = null], "none_picked"), FALSE)
         ELSE step_with([pk.g EXCEPT !.picked = pk.e], pk.e))

\* the pre-pass simplifier, which is outside this file: it is taken to leave
\* the queues as they are
simplify(g) == g

RECURSIVE watch_all(_, _)
watch_all(g, i) ==
    IF i > Len(g.to_simplify) THEN g
    ELSE Bind(add_to_watch(g, g.to_simplify[i]), LAMBDA g1 :
              watch_all(g1, i + 1))

init_saturate(g) ==
    watch_all([g EXCEPT !.level2var = l2v,
                        !.watch = [i \in 1 .. NV |-> <<>>],
                        !.levelp1 = NV],
              1)

\* the handler of pdd_manager::mem_out in saturate
catch_mem_out(g) == [g EXCEPT !.watch = <<>>, !.exc = FALSE]

NoStats ==
    [compute_steps |-> 0, simplified |-> 0, superposed |-> 0,
     max_expr_size |-> 0, max_expr_degree |-> 0]

\* the deallocations of reset that release an equation a second time: one
\* that a retire released, or one that occurs in the queues twice
frees_twice(g) ==
    \E q \in States : \E i \in 1 .. Len(g[q]) :
        \/ ~g.eqs[g[q][i]].live
        \/ \E k \in 1 .. (i - 1) : g[q][k] = g[q][i]
        \/ \E r \in States \ {q} : \E k \in 1 .. Len(g[r]) : g[r][k] = g[q][i]

\* what reset released: a conflict witness, and the rest of a solver that had
\* retired equations before
released(g) ==
    (IF g.conflict # null THEN {"reset_conflict"} ELSE {})
      \cup (IF \E e \in 1 .. Len(g.eqs) : ~g.eqs[e].live
            THEN {"reset_retired"} ELSE {})

\* a reset that also deallocates m_conflict
reset_deallocs_conflict(g) ==
    [g EXCEPT !.bad_free = @ \/ frees_twice(g) \/ g.conflict # null,
              !.eqs = <<>>,
              !.solved = <<>>,
              !.processed = <<>>,
              !.to_simplify = <<>>,
              !.stats = NoStats,
              !.watch = <<>>,
              !.level2var = <<>>,
              !.conflict = null,
              !.ev = released(g),
              !.picked = null,
              !.frozen = <<>>]

reset(g) ==
    [g EXCEPT !.bad_free = @ \/ frees_twice(g),
              !.eqs = <<>>,
              !.solved = <<>>,
              !.processed = <<>>,
              !.to_simplify = <<>>,
              !.stats = NoStats,
              !.watch = <<>>,
              !.level2var = <<>>,
              !.conflict = null,
              !.ev = released(g),
              !.picked = null,
              !.frozen = <<>>]


\* ------------------------------------------------------------------------
\* The engine and its caller
\* ------------------------------------------------------------------------

VARIABLES
    g,      \* the solver object, with the flag of its reslimit
    pc,     \* "idle": no call is running; "loop": inside the loop of saturate;
            \* "spin": inside a loop that does not end
    inputs, \* the polynomials passed to add by the caller, by dependency token
    nadds,  \* number of add calls made
    todo,   \* the polynomials the caller has still to add
    h,      \* what the last return of saturate left, to compare calls
    inj     \* where the flag was set or memory ran out in the last step

vars == <<g, pc, inputs, nadds, todo, h, inj>>

X == l2v[3]
Y == l2v[2]
Z == l2v[1]

\* The equation sets the caller works through, one add() per polynomial.
\* The first six are the scenarios of the specification (x > y > z); the
\* others are the boundary cases of add and the inputs under which a
\* processed equation is retired, becomes the conflict or migrates.
Scenarios ==
    { << {{X}, {Y}}, {{X}, {Z}} >>,
      << {{X}}, {{X}, {}}, {{X}, {Y}} >>,
      << {{X, Y}, {}}, {{X}} >>,
      << {{X}, {Y, Z}}, {{Y}, {Z}}, {{Z}, {}} >>,
      << {{Y}, {Z}} >>,
      << {{X, Y}, {Z}}, {{X, Z}, {Y}} >>,
      << {}, {{}}, {{}} >>,
      << {{X, Y}}, {{Y}, {}}, {{X}} >>,
      << {{Y}}, {{X, Y}}, {{X, Y}, {}} >>,
      << {{Y}}, {{X, Y}, {}}, {{X, Z}} >>,
      << {{X, Y}}, {{X, Z}, {X}, {}} >>,
      << {{X, Y}, {}}, {{X, Z}, {Y}, {Z}, {}} >> }

\* m_config: the defaults leave every cap out of reach; the others bring the
\* equation threshold, the step cap and the size limit into reach
Configs ==
    { [eqs_threshold |-> 10, max_steps |-> 10, expr_size_limit |-> 50],
      [eqs_threshold |-> 4,  max_steps |-> 10, expr_size_limit |-> 50],
      [eqs_threshold |-> 10, max_steps |-> 1,  expr_size_limit |-> 50],
      [eqs_threshold |-> 10, max_steps |-> 10, expr_size_limit |-> 4] }

\* solver::solver
NewSolver(cfg) ==
    [eqs |-> <<>>, solved |-> <<>>, processed |-> <<>>, to_simplify |-> <<>>,
     watch |-> <<>>, level2var |-> <<>>, levelp1 |-> 0, conflict |-> null,
     too_complex |-> FALSE, stats |-> NoStats, cfg |-> cfg,
     cancel |-> FALSE, cancel_in |-> 0, mem_in |-> 0,
     exc |-> FALSE, diverged |-> FALSE, bad_free |-> FALSE, ev |-> {},
     picked |-> null, exc_conflict |-> null, frozen |-> <<>>]

\* what a second saturate is claimed to leave alone
View(s) ==
    [eqs |-> s.eqs, solved |-> s.solved, processed |-> s.processed,
     to_simplify |-> s.to_simplify, conflict |-> s.conflict,
     stats |-> [s.stats EXCEPT !.compute_steps = 0]]

\* what done() answers in state s
DoneHolds(s) ==
    \/ Len(s.to_simplify) + Len(s.processed) >= s.cfg.eqs_threshold
    \/ s.cancel
    \/ s.stats.compute_steps > s.cfg.max_steps
    \/ s.conflict # null

NoHistory ==
    [snap |-> <<>>, armed |-> FALSE, rep |-> FALSE, stable |-> FALSE,
     same |-> TRUE, last |-> "none", prev |-> "none", below |-> FALSE]

Init ==
    /\ g \in {NewSolver(c) : c \in Configs}
    /\ pc = "idle"
    /\ inputs = <<>>
    /\ nadds = 0
    /\ todo \in Scenarios
    /\ h = NoHistory
    /\ inj = <<0, 0>>

\* an add by the caller is no derivation of the engine
Refreeze(s) ==
    IF s.conflict # null THEN [s EXCEPT !.frozen = <<Derived(s)>>] ELSE s

\* the caller adds p with a fresh dependency
Add ==
    /\ pc = "idle"
    /\ nadds < MaxAdds
    /\ todo # <<>>
    /\ g' = Refreeze(add([g EXCEPT !.ev = {}], Head(todo),
                          {Len(inputs) + 1}))
    /\ inputs' = Append(inputs, Head(todo))
    /\ todo' = Tail(todo)
    /\ nadds' = nadds + 1
    /\ h' = NoHistory
    /\ pc' = pc
    /\ inj' = <<0, 0>>

\* another thread sets the cancellation flag
Cancel ==
    /\ pc \in {"idle", "loop"}
    /\ ~g.cancel
    /\ g' = [g EXCEPT !.cancel = TRUE, !.ev = {}]
    /\ inj' = <<0, 0>>
    /\ UNCHANGED <<pc, inputs, nadds, todo, h>>

\* saturate() up to the loop
SaturateBegin ==
    /\ pc = "idle"
    /\ g' = init_saturate(simplify([g EXCEPT !.ev = {}, !.picked = null]))
    /\ pc' = "loop"
    /\ h' = [h EXCEPT !.rep = h.armed,
                      !.stable = h.armed /\ (DoneHolds(g) \/ g.to_simplify = <<>>),
                      !.same = TRUE,
                      !.last = "none",
                      !.prev = h.last,
                      !.below = ~size_reached(g)]
    /\ inj' = <<0, 0>>
    /\ UNCHANGED <<inputs, nadds, todo>>

Returned(s, why) ==
    [h EXCEPT !.snap = <<View(s)>>,
              !.armed = TRUE,
              !.same = ~h.rep \/ <<View(s)>> = h.snap,
              !.last = why]

\* what may happen inside one step: nothing, the flag is set before the k-th
\* read, or the m-th call of the algebra runs out of memory
Injections(s) ==
    {<<0, 0>>}
      \cup (IF s.cancel THEN {} ELSE {<<k, 0>> : k \in 1 .. MaxPoll})
      \cup {<<0, m>> : m \in 1 .. MaxAlg}

Disarm(s) == [s EXCEPT !.cancel_in = 0, !.mem_in = 0]

\* a loop condition that does not consult done()
loop_ignores_done(s) == TRUE

\* the first conjunct of the loop condition of saturate
loop_continues(s) == ~done(s)

\* one iteration of `while (!done() && step())`, with the return of saturate
\* when step returns false or the algebra runs out of memory
LoopStep ==
    /\ pc = "loop"
    /\ loop_continues(g)
    /\ inj' \in Injections(g)
    /\ \E r \in {step([g EXCEPT !.cancel_in = inj'[1], !.mem_in = inj'[2],
                                 !.ev = {}])} :
        \E s \in {Disarm(IF r.g.exc THEN catch_mem_out(r.g) ELSE r.g)} :
              /\ g' = s
              /\ pc' = IF r.g.diverged THEN "spin"
                       ELSE IF r.ret THEN "loop" ELSE "idle"
              /\ h' = IF r.g.diverged \/ r.ret THEN h
                      ELSE Returned(s, IF r.g.exc THEN "mem_out" ELSE "step")
    /\ UNCHANGED <<inputs, nadds, todo>>

\* the loop of saturate ends because done() holds
LoopExit ==
    /\ pc = "loop"
    /\ done(g)
    /\ pc' = "idle"
    /\ g' = [g EXCEPT !.ev = {}]
    /\ h' = Returned(g, "done")
    /\ inj' = <<0, 0>>
    /\ UNCHANGED <<inputs, nadds, todo>>

Reset ==
    /\ pc = "idle"
    /\ g.eqs # <<>>
    /\ g' = reset(g)
    /\ inputs' = <<>>
    /\ h' = NoHistory
    /\ inj' = <<0, 0>>
    /\ UNCHANGED <<pc, nadds, todo>>

Next ==
    \/ Add
    \/ Cancel
    \/ SaturateBegin
    \/ LoopStep
    \/ LoopExit
    \/ Reset

Spec == Init /\ [][Next]_vars

\* the single thread that runs saturate keeps running
LoopStepEnabled == pc = "loop" /\ loop_continues(g)

\* weak fairness of LoopStep, with its enabling condition written out
LoopStepFair == []<>(~LoopStepEnabled) \/ []<><<LoopStep>>_vars

LiveSpec == Spec /\ LoopStepFair /\ WF_vars(LoopExit)


\* ------------------------------------------------------------------------
\* Properties
\* ------------------------------------------------------------------------

Ids == 1 .. Len(g.eqs)

InQueue(q) == {g[q][i] : i \in 1 .. Len(g[q])}

Occurrences(w, e) == Cardinality({i \in 1 .. Len(w) : w[i] = e})

\* C1: every live equation is in exactly one queue, its state names that
\* queue, its idx is its position there and no queue holds an equation twice;
\* a retired equation is in no queue.
QueuesConsistent ==
    /\ \A q \in States : \A i \in 1 .. Len(g[q]) :
          /\ g[q][i] \in Ids
          /\ g.eqs[g[q][i]].live
          /\ g.eqs[g[q][i]].state = q
          /\ g.eqs[g[q][i]].idx = i - 1
    /\ \A e \in Ids : g.eqs[e].live => e \in InQueue(g.eqs[e].state)

\* C2: every entry of w[v] is a to_simplify equation with leading variable v.
WatchedAreToSimplify ==
    \A k \in 1 .. Len(g.watch) : \A i \in 1 .. Len(g.watch[k]) :
        LET e == g.watch[k][i]
        IN  /\ g.eqs[e].live
            /\ g.eqs[e].state = "to_simplify"
            /\ e \in InQueue("to_simplify")
            /\ ~is_val(poly(g, e))
            /\ var(poly(g, e)) = k - 1

\* C3: once the watch index is initialised, every to_simplify equation is in
\* the watch list of its leading variable exactly once.
ToSimplifyAreWatched ==
    Len(g.watch) # 0 =>
        \A e \in InQueue("to_simplify") :
            ~is_val(poly(g, e)) =>
                Occurrences(g.watch[var(poly(g, e)) + 1], e) = 1

\* C4: no equation in to_simplify or processed has a constant polynomial.
NoConstantQueued ==
    \A e \in InQueue("to_simplify") \cup InQueue("processed") :
        ~is_val(poly(g, e))

IsHead(e) == ~is_val(poly(g, e)) /\ is_val(hi(poly(g, e)))

HeadVars == {var(poly(g, e)) : e \in {x \in InQueue("solved") : IsHead(x)}}

\* C5: before and after every step, the head variables of solved are pairwise
\* distinct and occur in no equation of to_simplify or processed.
HeadVarsEliminated ==
    pc = "loop" =>
        /\ \A e1, e2 \in InQueue("solved") :
              (e1 # e2 /\ IsHead(e1) /\ IsHead(e2))
                  => var(poly(g, e1)) # var(poly(g, e2))
        /\ \A e \in InQueue("to_simplify") \cup InQueue("processed") :
              free_vars(poly(g, e)) \cap HeadVars = {}

\* C6: once set, the conflict stays the same equation until reset.
ConflictMonotone ==
    [][(g.conflict # null /\ g'.eqs # <<>>) => g'.conflict = g.conflict]_vars


\* C7 as claimed: whenever saturate has returned, done() holds or
\* to_simplify is empty.
ReturnsDoneOrEmpty ==
    (pc = "idle" /\ h.last # "none") =>
        (DoneHolds(g) \/ g.to_simplify = <<>>)

\* C7 as amended: when saturate has returned other than through the handler
\* of mem_out, done() holds or to_simplify is empty.
ReturnsDoneOrEmptyUnlessMemOut ==
    /\ (pc = "idle" /\ h.last \in {"done", "step"}) =>
          (DoneHolds(g) \/ g.to_simplify = <<>>)
    /\ (pc = "idle" /\ h.last = "mem_out") => g.watch = <<>>

\* C8: a running saturate eventually returns.
SaturateReturns == (pc = "loop") ~> (pc = "idle")

\* C9 as claimed: a second saturate with no add in between leaves queues,
\* equations, conflict and statistics other than the step counter unchanged.
SecondSaturateChangesNothing == h.same

\* C9 as amended: the same, for a second call made when done() holds or
\* to_simplify is empty.
SecondSaturateChangesNothingWhenStable == h.stable => h.same

Assignments == SUBSET Vars

\* C10: every assignment that makes all the inputs named in e.dep zero makes
\* e.poly zero, for every live equation e.
DependenciesSound ==
    \A e \in Ids : g.eqs[e].live =>
        \A a \in Assignments :
            (\A k \in g.eqs[e].dep : Eval(inputs[k], a) = 0)
                => Eval(poly(g, e), a) = 0

\* ------------------------------------------------------------------------
\* Reachable states in which the properties have something to say
\* ------------------------------------------------------------------------

\* a pass of simplify_using(processed, eq) migrated one target and kept
\* another behind it
CompactedWithMigration ==
    /\ "set_migrate" \in g.ev
    /\ g.processed # <<>>
    /\ g.to_simplify # <<>>

\* simplify_watch moved a target to the watch list of its new leading
\* variable
WatchMoved ==
    /\ "watch_move" \in g.ev
    /\ \E k \in 1 .. Len(g.watch) : g.watch[k] # <<>>

\* an S-polynomial was added while the watch index was in use
SpolyWatched ==
    /\ "spoly_add" \in g.ev
    /\ Len(g.watch) # 0
    /\ g.to_simplify # <<>>

\* reductions made a target zero and the step went on
ConstantRemoved ==
    /\ g.ev \cap {"set_retire", "watch_retire", "eq_retire"} # {}
    /\ InQueue("to_simplify") \cup InQueue("processed") # {}

\* saturate returned from step with nothing left to simplify and no bound hit
ReturnedSaturated ==
    /\ pc = "idle"
    /\ h.last = "step"
    /\ ~DoneHolds(g)
    /\ g.to_simplify = <<>>
    /\ g.processed # <<>>

\* saturate returned after several steps
ReturnedAfterSteps ==
    /\ pc = "idle"
    /\ h.last # "none"
    /\ g.stats.compute_steps >= 3
    /\ g.stats.simplified >= 2

\* a second saturate returned and found what the first had left
SecondReturnedSame ==
    /\ pc = "idle"
    /\ h.rep
    /\ h.stable
    /\ h.same
    /\ g.processed # <<>>

\* a derived equation depends on two inputs
JoinedDependency ==
    \E e \in Ids :
        /\ g.eqs[e].live
        /\ Cardinality(g.eqs[e].dep) >= 2
        /\ poly(g, e) \notin {inputs[k] : k \in 1 .. Len(inputs)}

\* number of places in the three queues that hold e
Placed(e) ==
    Occurrences(g.solved, e) + Occurrences(g.processed, e)
        + Occurrences(g.to_simplify, e)

\* saturate has returned from the loop with the flag set
ReturnedCanceled == pc = "idle" /\ h.last \in {"done", "step"} /\ g.cancel

\* C11: when saturate returns with the cancellation flag set, the equation
\* picked in the last step is in exactly one queue unless the step retired
\* it, and the queue, non-constant and watch invariants hold.
CanceledReturnsClean ==
    ReturnedCanceled =>
        /\ g.picked # null =>
              Placed(g.picked) = IF g.eqs[g.picked].live THEN 1 ELSE 0
        /\ QueuesConsistent
        /\ NoConstantQueued
        /\ WatchedAreToSimplify
        /\ ToSimplifyAreWatched

\* the flag was set inside a step, and the guard placed the picked equation
CanceledInsideStep ==
    /\ ReturnedCanceled
    /\ "canceled" \in g.ev
    /\ "guard_processed" \in g.ev
    /\ g.picked # null

\* C12: when the handler of mem_out ends saturate, the watch index is empty,
\* every live equation is in exactly one queue with its state and idx, and
\* the conflict is the one that was set when the algebra failed; the next
\* saturate rebuilds the watch index from to_simplify.
MemOutReturnsClean ==
    /\ (pc = "idle" /\ h.last = "mem_out") =>
          /\ g.watch = <<>>
          /\ QueuesConsistent
          /\ \A e \in Ids : g.eqs[e].live => Placed(e) = 1
          /\ g.conflict = g.exc_conflict
    /\ (pc = "loop" /\ h.prev = "mem_out") =>
          /\ Len(g.watch) = NV
          /\ ToSimplifyAreWatched
          /\ WatchedAreToSimplify

\* the algebra failed in a step that had picked an equation while two others
\* were in processed
MemOutInsidePass ==
    /\ pc = "idle"
    /\ h.last = "mem_out"
    /\ g.picked # null
    /\ Len(g.processed) >= 3

Watched(s) == UNION {{s.watch[k][i] : i \in 1 .. Len(s.watch[k])} :
                       k \in 1 .. Len(s.watch)}

\* e has just become a non-zero constant: it is one now and was none before
BecameConflict(e) ==
    /\ e \in 1 .. Len(g'.eqs)
    /\ is_conflict(g'.eqs[e].poly)
    /\ e \in Ids => ~is_conflict(poly(g, e))

\* C13: an equation that becomes a non-zero constant is the conflict after
\* the operation that made it one, and every such equation stays live in
\* solved and in no other queue or watch list; an equation that became zero
\* is retired, in no queue and not the conflict.
ConstantsSettled ==
    [][/\ \A e \in 1 .. Len(g'.eqs) :
             BecameConflict(e) => g'.conflict = e
       /\ \A e \in 1 .. Len(g'.eqs) :
             /\ is_conflict(g'.eqs[e].poly) =>
                   /\ g'.eqs[e].live
                   /\ g'.eqs[e].state = "solved"
                   /\ Occurrences(g'.solved, e) = 1
                   /\ Occurrences(g'.processed, e) = 0
                   /\ Occurrences(g'.to_simplify, e) = 0
                   /\ e \notin Watched(g')
                   /\ g'.conflict # null
             /\ is_trivial(g'.eqs[e].poly) =>
                   /\ ~g'.eqs[e].live
                   /\ Occurrences(g'.solved, e) = 0
                   /\ Occurrences(g'.processed, e) = 0
                   /\ Occurrences(g'.to_simplify, e) = 0
                   /\ e \notin Watched(g')
                   /\ g'.conflict # e]_vars

\* simplify_watch reduced a watched target to a non-zero constant
WatchedBecameConflict ==
    /\ "watch_conflict" \in g.ev
    /\ g.conflict # null
    /\ is_conflict(poly(g, g.conflict))

\* C14: whenever pick_next is about to be called, the leading variable of
\* every to_simplify equation has a level below m_levelp1, and pick_next
\* has returned none only with to_simplify empty.
PickReachesAll ==
    /\ pc = "loop" =>
          \A e \in InQueue("to_simplify") :
              var2level(var(poly(g, e))) < g.levelp1
    /\ "none_picked" \in g.ev => g.to_simplify = <<>>

\* a processed equation migrated to a level above that of the picked equation
MigratedAbovePicked ==
    /\ pc = "loop"
    /\ "set_migrate" \in g.ev
    /\ g.picked # null
    /\ g.eqs[g.picked].live
    /\ \E e \in InQueue("to_simplify") :
          /\ var2level(var(poly(g, e))) + 1 = g.levelp1
          /\ var2level(var(poly(g, g.picked))) < var2level(var(poly(g, e)))

\* a step that had picked an equation has just ended
StepEnded ==
    /\ g.picked # null
    /\ g.ev \cap {"commit_solved", "commit_processed", "guard_processed"} # {}

\* C15: after a step that picked e and neither retired it nor made it the
\* conflict, e is in solved if the step returned true with too_complex false
\* and e in solved form, and in processed otherwise; a single input in
\* solved form ends in solved with the other queues empty and nothing
\* superposed when saturate returns with no bound reached.
StepCommits ==
    /\ (StepEnded /\ g.eqs[g.picked].live /\ g.conflict # g.picked) =>
          /\ Placed(g.picked) = 1
          /\ g.eqs[g.picked].state =
                IF pc = "loop" /\ ~g.too_complex /\ IsHead(g.picked)
                THEN "solved" ELSE "processed"
    /\ (/\ pc = "idle"
        /\ h.last \in {"done", "step"}
        /\ ~DoneHolds(g)
        /\ Len(inputs) = 1
        /\ ~is_val(inputs[1])
        /\ is_val(hi(inputs[1]))) =>
          /\ g.solved = <<1>>
          /\ g.processed = <<>>
          /\ g.to_simplify = <<>>
          /\ g.stats.superposed = 0

\* a step committed its equation to solved while others were in processed
CommittedSolved ==
    /\ pc = "loop"
    /\ "commit_solved" \in g.ev
    /\ g.picked # null
    /\ g.eqs[g.picked].state = "solved"
    /\ g.processed # <<>>

Frame(s) ==
    [s EXCEPT !.too_complex = FALSE, !.ev = {}, !.stats.simplified = 0]

Reducible == {e \in Ids : g.eqs[e].live /\ ~is_val(poly(g, e))}

\* the equations that reduce others and are superposed with: those that
\* were picked before
Reducers == {e \in Reducible : g.eqs[e].state \in {"solved", "processed"}}

\* a decision diagram over NV variables has at most 2^(NV+1) - 1 nodes, so
\* a larger expr_size_limit rejects nothing
CanBeTooComplex == g.cfg.expr_size_limit < 2^(NV + 1) - 1

\* the reduction of dst by src changes dst into something too complex
ReduceTooComplex(dst, src) ==
    /\ CanBeTooComplex
    /\ dst # src
    /\ LET r == reduce(poly(g, dst), poly(g, src))
       IN  r # poly(g, dst) /\ is_too_complex(g, r)

SpolyTooComplex(e1, e2) ==
    /\ CanBeTooComplex
    /\ has_spoly(poly(g, e1), poly(g, e2))
    /\ LET r == spoly(poly(g, e1), poly(g, e2))
       IN  ~is_zero(r) /\ is_too_complex(g, r)

\* C17: a reduction whose result is too complex leaves dst, the queues and
\* the watch index as they are, sets too_complex and reports no
\* simplification, so that the pass over processed keeps dst in place; a
\* superposition whose result is too complex sets too_complex, adds no
\* equation and does not count as superposed.
TooComplexIsDiscarded ==
    /\ \A dst \in Reducible, src \in Reducers :
          ReduceTooComplex(dst, src) =>
              LET t == try_simplify_using(g, dst, src)
                  u == set_target(t, g.eqs[dst].state, dst,
                                  g.eqs[dst].idx, g.eqs[dst].idx)
              IN  /\ ~t.simplified
                  /\ ~t.changed
                  /\ t.g.too_complex
                  /\ Frame(t.g) = Frame(g)
                  /\ u.kept
                  /\ Frame(u.g) = Frame(g)
    /\ \A e1 \in Reducible, e2 \in Reducers :
          SpolyTooComplex(e1, e2) =>
              LET s == superpose_pair(g, e1, e2)
              IN  s.too_complex /\ Frame(s) = Frame(g)

\* a step abandoned a reduction, and the reduction is still too complex
ReductionAbandoned ==
    /\ "reduce_complex" \in g.ev
    /\ \E dst \in Reducible, src \in Reducers : ReduceTooComplex(dst, src)

\* C18: once the cancellation flag is set, simplify_using(eq, eqs) starts
\* no further pass over eqs and applies no further reduction to eq.
StopsWhenCanceled ==
    /\ "late_pass" \notin g.ev
    /\ "late_reduce" \notin g.ev

\* the original reading of C19: when saturate starts below eqs_threshold,
\* |to_simplify| + |processed| does not exceed eqs_threshold at a step
\* boundary or on return
ThresholdIsCap == h.below => queued(g) <= g.cfg.eqs_threshold

\* C19: eqs_threshold is consulted between steps: no step starts with
\* |to_simplify| + |processed| at or above eqs_threshold, and one step
\* raises the sum by at most the number of equations that processed held
\* when the step started.
ThresholdStopsSteps ==
    [][(pc = "loop" /\ g'.stats.compute_steps > g.stats.compute_steps) =>
          /\ queued(g) < g.cfg.eqs_threshold
          /\ queued(g') <= queued(g) + Len(g.processed)]_vars

\* a step that started below the threshold ended saturate above it
EndedAboveThreshold ==
    /\ h.below
    /\ pc = "idle"
    /\ h.last = "step"
    /\ "spoly_add" \in g.ev
    /\ queued(g) > g.cfg.eqs_threshold

\* C20: between the operations no retired equation is referenced from a
\* queue, a watch list or the conflict pointer, no equation stands at two
\* places of the queues, and no retire and no reset has released an
\* equation a second time.
NoDanglingNoDoubleFree ==
    /\ \A q \in States : \A i \in 1 .. Len(g[q]) : g.eqs[g[q][i]].live
    /\ \A v \in 1 .. Len(g.watch) : \A i \in 1 .. Len(g.watch[v]) :
          g.eqs[g.watch[v][i]].live
    /\ g.conflict # null => g.eqs[g.conflict].live
    /\ \A e \in Ids : Placed(e) <= 1
    /\ ~g.bad_free

\* reset released a conflict witness and the queues of a solver that had
\* retired equations
ResetAfterRetireAndConflict ==
    /\ "reset_conflict" \in g.ev
    /\ "reset_retired" \in g.ev
    /\ g.eqs = <<>>

\* the enabling condition written out in LoopStepFair is that of LoopStep
EnabledAgrees == LoopStepEnabled <=> ENABLED <<LoopStep>>_vars

====
